---- MODULE Spec2Model ----
(***************************************************************************)
(* A model of src/clib/group_parser.c: the Tcl command group::fromJson_C   *)
(* (GroupFromJsonCmd) and the recursive walk FlattenJsonObj that flattens  *)
(* a json-c tree into a Tcl list of alternating path keys and values.      *)
(*                                                                         *)
(* C strings are sequences of one-character strings.  A pointer that may   *)
(* be NULL is a sequence of length 0 (NULL) or 1 (the pointee).            *)
(***************************************************************************)
EXTENDS Integers, Sequences, FiniteSets, TLC

VARIABLES pc, objc, json_text, root_obj, resultListObj, stack, interpResult,
          retcode, prev

vars == <<pc, objc, json_text, root_obj, resultListObj, stack, interpResult,
          retcode, prev>>

-----------------------------------------------------------------------------
(* Bounds of the model.                                                    *)

\* Number of members (key/value entries, at any depth) of a generated document.
MaxNodes == 3
\* Length of the long key used to drive path construction into the buffer limit.
LongLen == 1020

\* The same, for the documents given to a command that is called repeatedly.
RepeatNodes == 1

(* Program constants.                                                      *)

\* char new_key[1024]
BufSize == 1024

NULL == <<>>

\* The values of objc tried: the command name alone, with one argument, with two.
ArgCounts == {1, 2, 3}

-----------------------------------------------------------------------------
(* JSON values as json-c holds them.  A JSON null is the NULL pointer in   *)
(* json-c; here it is the value of type "null".                            *)

JNull == [type |-> "null", v |-> <<>>]
JInt(n) == [type |-> "int", v |-> <<n>>]
JStr(s) == [type |-> "string", v |-> s]
JBool(b) == [type |-> "boolean", v |-> <<b>>]
JArr(es) == [type |-> "array", v |-> es]
JObj(ms) == [type |-> "object", v |-> ms]
Member(k, x) == [key |-> k, val |-> x]

\* enum json_type type = json_object_get_type(val)
json_object_get_type(val) == val.type

DigitChars == <<"0", "1", "2", "3", "4", "5", "6", "7", "8", "9">>

RECURSIVE IntToStr(_)
IntToStr(n) ==
    IF n < 10 THEN <<DigitChars[n + 1]>>
    ELSE IntToStr(n \div 10) \o <<DigitChars[(n % 10) + 1]>>

Quoted(s) == <<"\"">> \o s \o <<"\"">>

\* json_object_to_json_string: the library's JSON text of a value (spaced format).
RECURSIVE json_object_to_json_string(_)
RECURSIVE ElementsToString(_)
RECURSIVE MembersToString(_)
ElementsToString(es) ==
    IF es = <<>> THEN <<>>
    ELSE json_object_to_json_string(Head(es))
         \o (IF Len(es) > 1 THEN <<",", " ">> ELSE <<>>)
         \o ElementsToString(Tail(es))
MembersToString(ms) ==
    IF ms = <<>> THEN <<>>
    ELSE Quoted(Head(ms).key) \o <<":", " ">>
         \o json_object_to_json_string(Head(ms).val)
         \o (IF Len(ms) > 1 THEN <<",", " ">> ELSE <<>>)
         \o MembersToString(Tail(ms))
json_object_to_json_string(val) ==
    CASE val.type = "null" -> <<"n", "u", "l", "l">>
      [] val.type = "int" -> IntToStr(val.v[1])
      [] val.type = "boolean" ->
            IF val.v[1] THEN <<"t", "r", "u", "e">>
            ELSE <<"f", "a", "l", "s", "e">>
      [] val.type = "string" -> Quoted(val.v)
      [] val.type = "array" ->
            IF val.v = <<>> THEN <<"[", "]">>
            ELSE <<"[", " ">> \o ElementsToString(val.v) \o <<" ", "]">>
      [] val.type = "object" ->
            IF val.v = <<>> THEN <<"{", " ", "}">>
            ELSE <<"{", " ">> \o MembersToString(val.v) \o <<" ", "}">>

\* value_str = json_object_get_string(val): NULL for the NULL object (a JSON
\* null), the bare characters of a string, the JSON text of anything else.
json_object_get_string(val) ==
    CASE val.type = "null" -> NULL
      [] val.type = "string" -> <<val.v>>
      [] OTHER -> <<json_object_to_json_string(val)>>

\* Tcl_NewStringObj(bytes, -1): the length is strlen(bytes), or 0 when
\* bytes is NULL, which gives the empty string.
Tcl_NewStringObj(bytes) == IF bytes = NULL THEN <<>> ELSE bytes[1]

\* The element is put at the head of the list.
ListObjPrependElement(listObj, elem) == <<elem>> \o listObj

\* Tcl_ListObjAppendElement(NULL, listObj, elem)
Tcl_ListObjAppendElement(listObj, elem) == Append(listObj, elem)

-----------------------------------------------------------------------------
(* Path construction.                                                      *)

Take(s, n) == IF Len(s) <= n THEN s ELSE SubSeq(s, 1, n)

\* The whole string is stored, whatever the size.
sprintf(size, s) == s

\* snprintf(buf, size, ...): at most size - 1 characters are stored.
snprintf(size, s) == Take(s, size - 1)

\* The prefix is left out.
NewKeyNoPrefix(prefix, key) == snprintf(BufSize, key)

\* Lines 16-20: the new comma-delimited key.
NewKey(prefix, key) ==
    IF prefix = <<>> THEN snprintf(BufSize, key)
    ELSE snprintf(BufSize, prefix \o <<",">> \o key)

-----------------------------------------------------------------------------
(* The parser.  An input text is a record: ok says whether it is well      *)
(* formed JSON, doc is the document as written (members in document order, *)
(* a key possibly written twice in one object).                            *)

\* json_object_object_add, as the tokener calls it for each member read: a
\* key already present keeps its place and takes the new value.
RECURSIVE json_object_object_add(_, _, _)
json_object_object_add(ms, k, x) ==
    IF ms = <<>> THEN <<Member(k, x)>>
    ELSE IF Head(ms).key = k THEN <<Member(k, x)>> \o Tail(ms)
    ELSE <<Head(ms)>> \o json_object_object_add(Tail(ms), k, x)

RECURSIVE BuildValue(_)
RECURSIVE BuildMembers(_, _)
RECURSIVE BuildElements(_)
BuildMembers(acc, ms) ==
    IF ms = <<>> THEN acc
    ELSE BuildMembers(
            json_object_object_add(acc, Head(ms).key, BuildValue(Head(ms).val)),
            Tail(ms))
BuildElements(es) ==
    IF es = <<>> THEN <<>>
    ELSE <<BuildValue(Head(es))>> \o BuildElements(Tail(es))
BuildValue(x) ==
    CASE x.type = "object" -> JObj(BuildMembers(<<>>, x.v))
      [] x.type = "array" -> JArr(BuildElements(x.v))
      [] OTHER -> x

\* json_tokener_parse(json_text): NULL when the text is malformed, and NULL
\* as well for the text "null", whose value json-c represents by NULL.
json_tokener_parse(text) ==
    IF ~text.ok THEN NULL
    ELSE IF text.doc.type = "null" THEN NULL
    ELSE <<BuildValue(text.doc)>>

-----------------------------------------------------------------------------
(* Input texts.                                                            *)

Text(d) == [ok |-> TRUE, doc |-> d]
\* A text the tokener rejects, such as "{not json": what it was meant to
\* say plays no part.
Malformed(d) == [ok |-> FALSE, doc |-> d]

KeyA == <<"a">>
KeyB == <<"b">>
KeyC == <<"c">>
KeyD == <<"d">>
KeyEmpty == <<>>
KeyComma == <<"a", ",", "b">>
LongKey == [i \in 1..LongLen |-> "k"]

GenKeys == {KeyA, KeyB, KeyComma}
GenLeaves == {JInt(1), JNull}

\* Forest(n): the member lists with exactly n members in all, counted at
\* every depth; the first member takes j of them, itself included.
RECURSIVE Forest(_)
RECURSIVE ForestFrom(_, _)
RECURSIVE ValueOfSize(_)
ValueOfSize(m) ==
    IF m = 0 THEN GenLeaves \cup {JObj(<<>>)}
    ELSE {JObj(f) : f \in Forest(m)}
ForestFrom(n, j) ==
    IF j > n THEN {}
    ELSE {<<Member(k, x)>> \o rest :
             k \in GenKeys, x \in ValueOfSize(j - 1), rest \in Forest(n - j)}
         \cup ForestFrom(n, j + 1)
Forest(n) == IF n = 0 THEN {<<>>} ELSE ForestFrom(n, 1)

RECURSIVE GenDocs(_)
GenDocs(n) ==
    {JObj(f) : f \in Forest(n)} \cup (IF n = 0 THEN {} ELSE GenDocs(n - 1))

\* {"a": 1, "b": {"c": 2, "d": 3}}
ExampleDoc ==
    JObj(<<Member(KeyA, JInt(1)),
           Member(KeyB, JObj(<<Member(KeyC, JInt(2)), Member(KeyD, JInt(3))>>))>>)

\* [1, {"b": 2}]
ArrayWithObject == JArr(<<JInt(1), JObj(<<Member(KeyB, JInt(2))>>)>>)

ScalarDocs ==
    {JInt(5), JStr(<<"5">>), JBool(TRUE), JNull, JArr(<<>>), ArrayWithObject}

ObjectDocs ==
    { ExampleDoc,
      \* {"x": {"y": {}}}
      JObj(<<Member(<<"x">>, JObj(<<Member(<<"y">>, JObj(<<>>))>>))>>),
      \* {"a": [1, {"b": 2}], "b": "x", "c": false, "d": 12}
      JObj(<<Member(KeyA, ArrayWithObject), Member(KeyB, JStr(<<"x">>)),
             Member(KeyC, JBool(FALSE)), Member(KeyD, JInt(12))>>),
      \* {"a": null, "b": {}, "": {"a": null, "c": {}}}
      JObj(<<Member(KeyA, JNull), Member(KeyB, JObj(<<>>)),
             Member(KeyEmpty, JObj(<<Member(KeyA, JNull), Member(KeyC, JObj(<<>>))>>))>>),
      \* {"a": {"b": [], "c": null}, "a": {"d": [1, {"b": 2}]}}
      JObj(<<Member(KeyA, JObj(<<Member(KeyB, JArr(<<>>)), Member(KeyC, JNull)>>)),
             Member(KeyA, JObj(<<Member(KeyD, ArrayWithObject)>>))>>) }

LongDocs ==
    { JObj(<<Member(LongKey, JInt(1))>>),
      JObj(<<Member(KeyD, JInt(4)), Member(KeyC, JInt(3)), Member(KeyB, JInt(2)),
             Member(LongKey, JObj(<<Member(KeyA, JInt(1)), Member(KeyComma, JInt(2))>>))>>),
      JObj(<<Member(KeyD, JInt(4)), Member(KeyC, JInt(3)), Member(KeyB, JInt(2)),
             Member(LongKey,
                JObj(<<Member(<<"a", "b", "c">>, JInt(1)),
                       Member(<<"a", "b", "d">>, JInt(2))>>))>>),
      JObj(<<Member(LongKey,
                JObj(<<Member(KeyA,
                          JObj(<<Member(<<"b", "c">>,
                                    JObj(<<Member(KeyC, JInt(1)),
                                           Member(KeyD, JStr(<<"x">>))>>))>>))>>)),
             Member(KeyB, JInt(2))>>) }

EmptyKeyDocs ==
    { \* {"": 1}
      JObj(<<Member(KeyEmpty, JInt(1))>>),
      \* {"": {"": 1}}
      JObj(<<Member(KeyEmpty, JObj(<<Member(KeyEmpty, JInt(1))>>))>>),
      \* {"": {"a": 1, "": {"b": 2}}}
      JObj(<<Member(KeyEmpty,
                JObj(<<Member(KeyA, JInt(1)),
                       Member(KeyEmpty, JObj(<<Member(KeyB, JInt(2))>>))>>))>>),
      \* {"d": 4, "c": 3, "b": 2, "": {"a": 1}, "a": 2}
      JObj(<<Member(KeyD, JInt(4)), Member(KeyC, JInt(3)), Member(KeyB, JInt(2)),
             Member(KeyEmpty, JObj(<<Member(KeyA, JInt(1))>>)),
             Member(KeyA, JInt(2))>>),
      \* {"a": {"": 1, "b": {"": null}}, "b": {}}
      JObj(<<Member(KeyA,
                JObj(<<Member(KeyEmpty, JInt(1)),
                       Member(KeyB, JObj(<<Member(KeyEmpty, JNull)>>))>>)),
             Member(KeyB, JObj(<<>>))>>) }

EdgeDocs == ScalarDocs \cup ObjectDocs \cup LongDocs \cup EmptyKeyDocs

MalformedTexts == {Malformed(JNull), Malformed(ExampleDoc)}

\* The texts a single call is given.
Docs == {Text(d) : d \in GenDocs(MaxNodes) \cup EdgeDocs} \cup MalformedTexts

\* The texts given when the command is called again and again.
RepeatDocs == {Text(d) : d \in GenDocs(RepeatNodes) \cup EdgeDocs} \cup MalformedTexts

-----------------------------------------------------------------------------
(* The command and the walk.  stack is the C call stack of FlattenJsonObj: *)
(* a frame holds the call's jobj and prefix, and entry, the position of    *)
(* the foreach loop in jobj's members.                                     *)

NoText == Malformed(JNull)
NoResult == [str |-> "", obj |-> NULL]
ParseErrorMsg == "Failed to parse JSON text in C"
WrongNumArgsMsg == "wrong # args: should be \"group::fromJson_C json_string\""

Frame(jobj, prefix) == [jobj |-> jobj, prefix |-> prefix, entry |-> 1]
Top == stack[Len(stack)]

\* json_object_get_object(jobj): the table of an object, NULL for any
\* other type.
json_object_get_object(jobj) ==
    IF jobj.type = "object" THEN <<jobj.v>> ELSE NULL

\* The foreach loop's condition: entry is not NULL.
HasEntry(f) == f.entry <= Len(json_object_get_object(f.jobj)[1])
EntryKey(f) == json_object_get_object(f.jobj)[1][f.entry].key
EntryVal(f) == json_object_get_object(f.jobj)[1][f.entry].val

\* An empty object taken for a leaf.
IsBranchNonEmpty(val) == json_object_get_type(val) = "object" /\ val.v # <<>>

\* An array taken for a branch as well.
IsBranchOrArray(val) == json_object_get_type(val) \in {"object", "array"}

\* type == json_type_object
IsBranch(val) == json_object_get_type(val) = "object"

\* The list is created before the parse result is looked at.
NewResultListEager(parsed) == <<<<>>>>

\* The list of an earlier call is used again.
NewResultListShared(parsed) ==
    IF parsed = NULL THEN NULL
    ELSE IF prev # <<>> /\ prev[1].result.obj # NULL THEN prev[1].result.obj
    ELSE <<<<>>>>

\* The result list of a call: none when the parse failed (the command has
\* returned before line 61), else a new empty list.
NewResultList(parsed) == IF parsed = NULL THEN NULL ELSE <<<<>>>>

Init ==
    /\ pc = "idle"
    /\ objc = 0
    /\ json_text = NoText
    /\ root_obj = NULL
    /\ resultListObj = NULL
    /\ stack = <<>>
    /\ interpResult = NoResult
    /\ retcode = "none"
    /\ prev = <<>>

\* GroupFromJsonCmd up to the call of FlattenJsonObj; n is objc, t the text
\* of objv[1].
GroupFromJsonCmd(n, t) ==
    /\ pc = "idle"
    /\ objc' = n
    /\ IF n # 2
       THEN /\ interpResult' = [str |-> WrongNumArgsMsg, obj |-> NULL]
            /\ retcode' = "TCL_ERROR"
            /\ pc' = "returned"
            /\ json_text' = NoText
            /\ root_obj' = NULL
            /\ resultListObj' = NULL
            /\ stack' = <<>>
       ELSE LET parsed == json_tokener_parse(t) IN
            /\ json_text' = t
            /\ root_obj' = parsed
            /\ resultListObj' = NewResultList(parsed)
            /\ IF parsed = NULL
               THEN /\ interpResult' = [str |-> ParseErrorMsg, obj |-> NULL]
                    /\ retcode' = "TCL_ERROR"
                    /\ pc' = "returned"
                    /\ stack' = <<>>
               ELSE /\ interpResult' = NoResult
                    /\ retcode' = "none"
                    /\ pc' = "flatten"
                    /\ stack' = <<Frame(parsed[1], <<>>)>>
    /\ UNCHANGED prev

\* json_object_object_foreach on a jobj that is no object:
\* json_object_get_object(jobj) is NULL and the loop reads its head.  The
\* read of address NULL ends the process, or yields no entry.
FlattenNonObject ==
    /\ pc = "flatten"
    /\ stack # <<>>
    /\ json_object_get_object(Top.jobj) = NULL
    /\ \E outcome \in {"fault", "no entry"} :
          IF outcome = "fault"
          THEN pc' = "crashed" /\ stack' = stack
          ELSE pc' = pc /\ stack' = SubSeq(stack, 1, Len(stack) - 1)
    /\ UNCHANGED <<objc, json_text, root_obj, resultListObj, interpResult,
                   retcode, prev>>

\* One pass of the loop body on a value that is no object: two elements
\* are appended to the list, and the loop moves to the next entry.
FlattenLeaf ==
    /\ pc = "flatten"
    /\ stack # <<>>
    /\ json_object_get_object(Top.jobj) # NULL
    /\ HasEntry(Top)
    /\ ~IsBranch(EntryVal(Top))
    /\ LET new_key == NewKey(Top.prefix, EntryKey(Top))
           value_str == json_object_get_string(EntryVal(Top))
       IN  resultListObj' =
              <<Tcl_ListObjAppendElement(
                    Tcl_ListObjAppendElement(resultListObj[1], new_key),
                    Tcl_NewStringObj(value_str))>>
    /\ stack' = [stack EXCEPT ![Len(stack)].entry = @ + 1]
    /\ UNCHANGED <<pc, objc, json_text, root_obj, interpResult, retcode, prev>>

\* One pass of the loop body on an object: the recursive call.
FlattenRecurse ==
    /\ pc = "flatten"
    /\ stack # <<>>
    /\ json_object_get_object(Top.jobj) # NULL
    /\ HasEntry(Top)
    /\ IsBranch(EntryVal(Top))
    /\ stack' = Append(stack, Frame(EntryVal(Top), NewKey(Top.prefix, EntryKey(Top))))
    /\ UNCHANGED <<pc, objc, json_text, root_obj, resultListObj, interpResult,
                   retcode, prev>>

\* The loop of the innermost call is over: the call returns, and the loop
\* of its caller moves to the next entry.
FlattenReturn ==
    /\ pc = "flatten"
    /\ stack # <<>>
    /\ json_object_get_object(Top.jobj) # NULL
    /\ ~HasEntry(Top)
    /\ stack' =
          IF Len(stack) = 1 THEN <<>>
          ELSE [SubSeq(stack, 1, Len(stack) - 1)
                    EXCEPT ![Len(stack) - 1].entry = @ + 1]
    /\ UNCHANGED <<pc, objc, json_text, root_obj, resultListObj, interpResult,
                   retcode, prev>>

\* GroupFromJsonCmd after the walk: the list becomes the interpreter's
\* result, the tree is released, TCL_OK is returned.
GroupFromJsonCmdReturn ==
    /\ pc = "flatten"
    /\ stack = <<>>
    /\ interpResult' = [str |-> "", obj |-> resultListObj]
    /\ root_obj' = NULL
    /\ retcode' = "TCL_OK"
    /\ pc' = "returned"
    /\ UNCHANGED <<objc, json_text, resultListObj, stack, prev>>

\* The script calls the registered command again: the locals of the call
\* before are gone and the interpreter has reset its result.  prev keeps
\* the text and the outcome of some earlier call.
CallAgain ==
    /\ pc = "returned"
    /\ pc' = "idle"
    /\ \E keep \in BOOLEAN :
          prev' = IF keep THEN prev
                  ELSE <<[objc |-> objc, text |-> json_text, code |-> retcode,
                          result |-> interpResult]>>
    /\ objc' = 0
    /\ json_text' = NoText
    /\ root_obj' = NULL
    /\ resultListObj' = NULL
    /\ stack' = <<>>
    /\ interpResult' = NoResult
    /\ retcode' = "none"

\* The script calls the command with objc - 1 arguments, the first of them
\* a text of texts.
Call(texts) ==
    /\ pc = "idle"
    /\ \E n \in ArgCounts, t \in texts : GroupFromJsonCmd(n, t)

Walk ==
    \/ FlattenNonObject
    \/ FlattenLeaf
    \/ FlattenRecurse
    \/ FlattenReturn
    \/ GroupFromJsonCmdReturn

Next ==
    \/ Call(Docs)
    \/ Walk

Spec == Init /\ [][Next]_vars

NextRepeat ==
    \/ Call(RepeatDocs)
    \/ Walk
    \/ CallAgain

SpecRepeat == Init /\ [][NextRepeat]_vars

-----------------------------------------------------------------------------
(* What the properties are stated with: the tree of the current call, its  *)
(* leaves in depth-first pre-order, and the returned list read as pairs.   *)

\* The call has returned TCL_OK for a text.
ReturnedOK == pc = "returned" /\ objc = 2 /\ retcode = "TCL_OK"

\* The tree the tokener makes of the current text (<<>> when it makes none).
Parsed == json_tokener_parse(json_text)
ParsedObject == Parsed # NULL /\ Parsed[1].type = "object"

\* The list the command returned.
Result == interpResult.obj[1]
NumPairs(list) == Len(list) \div 2
PathAt(list, i) == list[2 * i - 1]
ValueAt(list, i) == list[2 * i]

\* The number of values that are no objects, counted through the objects.
RECURSIVE LeafCount(_)
RECURSIVE LeafCountOfMembers(_)
LeafCountOfMembers(ms) ==
    IF ms = <<>> THEN 0
    ELSE LeafCount(Head(ms).val) + LeafCountOfMembers(Tail(ms))
LeafCount(x) == IF x.type = "object" THEN LeafCountOfMembers(x.v) ELSE 1

\* The leaves below an object in depth-first pre-order, each with the chain
\* of keys that leads to it.
RECURSIVE LeavesOfMembers(_, _)
LeavesOfMembers(ms, chain) ==
    IF ms = <<>> THEN <<>>
    ELSE LET here == Append(chain, Head(ms).key)
             x == Head(ms).val
         IN  (IF x.type = "object" THEN LeavesOfMembers(x.v, here)
              ELSE <<[keys |-> here, val |-> x]>>)
             \o LeavesOfMembers(Tail(ms), chain)
Leaves(x) == IF x.type = "object" THEN LeavesOfMembers(x.v, <<>>) ELSE <<>>

\* The keys of a chain with one comma between neighbours.
RECURSIVE JoinComma(_)
JoinComma(chain) ==
    IF chain = <<>> THEN <<>>
    ELSE IF Len(chain) = 1 THEN chain[1]
    ELSE chain[1] \o <<",">> \o JoinComma(Tail(chain))

\* The path the buffer arithmetic of the walk gives a chain of keys: a key
\* is appended behind a comma unless nothing precedes it, and what does
\* not fit into BufSize - 1 characters is cut off.
RECURSIVE BufferedPath(_)
BufferedPath(chain) ==
    IF chain = <<>> THEN <<>>
    ELSE LET before == BufferedPath(SubSeq(chain, 1, Len(chain) - 1))
             key == chain[Len(chain)]
         IN  Take(IF before = <<>> THEN key ELSE before \o <<",">> \o key,
                  BufSize - 1)

\* The text of a value as a whole: nothing for null, the characters of a
\* string, the JSON text of a number, a boolean or an array.
WholeRendering(x) ==
    CASE x.type = "null" -> <<>>
      [] x.type = "string" -> x.v
      [] OTHER -> json_object_to_json_string(x)

\* The chain of keys the loops of the calls on the stack stand at.
CurrentChain == [i \in 1..Len(stack) |-> EntryKey(stack[i])]

-----------------------------------------------------------------------------
\* C1: when a call on a text whose root is an object has returned TCL_OK,
\* the list holds one (path, value) pair for each value of the tree that is
\* no object, counted through all nested objects, and none for an object,
\* empty or not; a tree without leaves gives the empty list.
C1_PairCountIsLeafCount ==
    (ReturnedOK /\ ParsedObject) =>
        /\ Len(Result) = 2 * LeafCount(Parsed[1])
        /\ (LeafCount(Parsed[1]) = 0 => Result = <<>>)

\* A returned call on an object with two leaves and an empty object inside.
C1_Witness ==
    /\ ReturnedOK
    /\ ParsedObject
    /\ \E i \in 1..Len(Parsed[1].v) : Parsed[1].v[i].val = JObj(<<>>)
    /\ LeafCount(Parsed[1]) = 2
    /\ Len(Result) = 4

\* C2: the pairs are in depth-first pre-order of the tree: during the walk
\* and at its end the i-th pair of the list is the pair of the i-th leaf in
\* pre-order, and {"a": 1, "b": {"c": 2, "d": 3}} gives ("a","1"),
\* ("b,c","2"), ("b,d","3") in that order.
C2_PreOrder ==
    /\ (pc = "flatten" /\ ParsedObject) =>
          /\ NumPairs(resultListObj[1]) <= Len(Leaves(Parsed[1]))
          /\ \A i \in 1..NumPairs(resultListObj[1]) :
                /\ PathAt(resultListObj[1], i) = BufferedPath(Leaves(Parsed[1])[i].keys)
                /\ ValueAt(resultListObj[1], i) = WholeRendering(Leaves(Parsed[1])[i].val)
    /\ (ReturnedOK /\ ParsedObject) =>
          /\ NumPairs(Result) = Len(Leaves(Parsed[1]))
          /\ \A i \in 1..NumPairs(Result) :
                /\ PathAt(Result, i) = BufferedPath(Leaves(Parsed[1])[i].keys)
                /\ ValueAt(Result, i) = WholeRendering(Leaves(Parsed[1])[i].val)
    /\ (ReturnedOK /\ json_text = Text(ExampleDoc)) =>
          Result = <<KeyA, <<"1">>, <<"b", ",", "c">>, <<"2">>,
                     <<"b", ",", "d">>, <<"3">>>>

\* The call on {"a": 1, "b": {"c": 2, "d": 3}} has returned its three pairs.
C2_Witness ==
    /\ ReturnedOK
    /\ json_text = Text(ExampleDoc)
    /\ NumPairs(Result) = 3
    /\ PathAt(Result, 2) = <<"b", ",", "c">>

\* C3: the path of every pair is the whole chain of keys from the root to
\* its leaf with one comma between neighbours, whatever the keys and the
\* depth.
C3_PathIsWholeChain ==
    (ReturnedOK /\ ParsedObject) =>
        \A i \in 1..NumPairs(Result) :
            i <= Len(Leaves(Parsed[1])) =>
                PathAt(Result, i) = JoinComma(Leaves(Parsed[1])[i].keys)

\* C4: when the tokener gives no tree for the text, the command returns
\* TCL_ERROR with the fixed message, no list is ever created and no pair
\* is put anywhere: the call is over in one step.
C4_ParseFailureNoOutput ==
    (objc = 2 /\ pc # "idle" /\ (~json_text.ok \/ Parsed = NULL)) =>
        /\ pc = "returned"
        /\ retcode = "TCL_ERROR"
        /\ interpResult = [str |-> ParseErrorMsg, obj |-> NULL]
        /\ resultListObj = NULL
        /\ stack = <<>>

\* A call on a malformed text has returned.
C4_Witness ==
    /\ pc = "returned"
    /\ objc = 2
    /\ ~json_text.ok
    /\ retcode = "TCL_ERROR"

\* C5: a call on a well-formed text whose root is no object (a string, a
\* number, true, null, an array) ends by returning TCL_OK and the empty list.
C5_NonObjectRootGivesEmpty ==
    (objc = 2 /\ json_text.ok /\ json_text.doc.type # "object"
        /\ pc \in {"returned", "crashed"}) =>
        /\ pc = "returned"
        /\ retcode = "TCL_OK"
        /\ interpResult.obj = <<<<>>>>

\* C6: a call on a well-formed text never ends in an error: it returns
\* TCL_OK and a list.
C6_ValidTextNeverFails ==
    (objc = 2 /\ json_text.ok /\ pc \in {"returned", "crashed"}) =>
        /\ pc = "returned"
        /\ retcode = "TCL_OK"
        /\ interpResult.obj # NULL

\* No object of the tree has two members with the same key.
RECURSIVE NoDuplicateKeys(_)
NoDuplicateKeys(x) ==
    x.type = "object" =>
        /\ \A i, j \in 1..Len(x.v) : x.v[i].key = x.v[j].key => i = j
        /\ \A i \in 1..Len(x.v) : NoDuplicateKeys(x.v[i].val)

\* Every key of the tree has a character and no comma.
PlainKey(k) == k # <<>> /\ \A i \in 1..Len(k) : k[i] # ","
RECURSIVE AllKeysPlain(_)
AllKeysPlain(x) ==
    x.type = "object" =>
        \A i \in 1..Len(x.v) : PlainKey(x.v[i].key) /\ AllKeysPlain(x.v[i].val)

\* The joined chain of every leaf fits the buffer.
AllPathsFit(x) ==
    \A i \in 1..Len(Leaves(x)) : Len(JoinComma(Leaves(x)[i].keys)) <= BufSize - 1

DistinctPaths(list) ==
    \A i, j \in 1..NumPairs(list) : PathAt(list, i) = PathAt(list, j) => i = j

\* C7 as stated: when no object of the parsed tree has two members with
\* the same key, no two pairs of the returned list have the same path.
C7_DistinctPaths ==
    (ReturnedOK /\ Parsed # NULL /\ NoDuplicateKeys(Parsed[1])) =>
        DistinctPaths(Result)

\* C7 as amended: when no object of the parsed tree has two members with
\* the same key, every key has at least one character and no comma, and
\* the joined chain of every leaf is at most BufSize - 1 characters long,
\* no two pairs of the returned list have the same path.
C7_DistinctPathsOfPlainKeys ==
    (ReturnedOK /\ Parsed # NULL /\ NoDuplicateKeys(Parsed[1])
        /\ AllKeysPlain(Parsed[1]) /\ AllPathsFit(Parsed[1])) =>
        DistinctPaths(Result)

\* A returned call on a nested tree of plain keys where a key of the inner
\* object is also a key of the root.
C7_Witness ==
    /\ ReturnedOK
    /\ ParsedObject
    /\ NoDuplicateKeys(Parsed[1]) /\ AllKeysPlain(Parsed[1]) /\ AllPathsFit(Parsed[1])
    /\ NumPairs(Result) = 2
    /\ \E i, j \in 1..Len(Leaves(Parsed[1])) :
          /\ Len(Leaves(Parsed[1])[i].keys) = 1
          /\ Len(Leaves(Parsed[1])[j].keys) = 2
          /\ Leaves(Parsed[1])[j].keys[2] = Leaves(Parsed[1])[i].keys[1]

\* C8: a call on a text returns what an earlier call on the same text
\* returned, code and result alike, whatever was called in between.
C8_SameTextSameResult ==
    (pc = "returned" /\ objc = 2 /\ prev # <<>> /\ prev[1].objc = 2
        /\ prev[1].text = json_text) =>
        /\ prev[1].code = retcode
        /\ prev[1].result = interpResult

\* A second call on a text has returned at least two pairs.
C8_Witness ==
    /\ ReturnedOK
    /\ prev # <<>>
    /\ prev[1].objc = 2
    /\ prev[1].text = json_text
    /\ NumPairs(Result) >= 2

\* C9: a pass of the loop on a value that is no object (an array, also one
\* that holds objects, a number, a string, a boolean, null) appends exactly
\* one pair, the composed key of that value and the text of the value as a
\* whole, makes no call, and goes on with the next member.
C9_NonObjectIsOneLeaf ==
    [][(/\ pc = "flatten"
        /\ stack # <<>>
        /\ Top.jobj.type = "object"
        /\ Top.entry <= Len(Top.jobj.v)
        /\ Top.jobj.v[Top.entry].val.type # "object")
       => (/\ Len(stack') = Len(stack)
           /\ stack'[Len(stack)].entry = Top.entry + 1
           /\ resultListObj'[1] =
                 resultListObj[1] \o <<BufferedPath(CurrentChain),
                                        WholeRendering(Top.jobj.v[Top.entry].val)>>)]_vars

\* The array [1, {"b": 2}] has just been appended as one value.
C9_Witness ==
    /\ pc = "flatten"
    /\ resultListObj # NULL
    /\ Len(resultListObj[1]) >= 2
    /\ resultListObj[1][Len(resultListObj[1])] = json_object_to_json_string(ArrayWithObject)

\* The path of a chain of keys when nothing is ever cut: a key is appended
\* behind a comma unless nothing precedes it.
RECURSIVE UncutPath(_)
UncutPath(chain) ==
    IF chain = <<>> THEN <<>>
    ELSE LET before == UncutPath(SubSeq(chain, 1, Len(chain) - 1))
             key == chain[Len(chain)]
         IN  IF before = <<>> THEN key ELSE before \o <<",">> \o key

\* C10: no prefix on the stack and no path in the list is longer than
\* BufSize - 1 = 1023 characters; the prefix of a call is the prefix of its
\* caller, a comma and the key (the key alone behind an empty prefix), cut
\* to its first 1023 characters, and every path in the list is the first
\* 1023 characters of the path its chain of keys has when nothing is cut.
C10_PathWithinBuffer ==
    /\ \A i \in 1..Len(stack) : Len(stack[i].prefix) <= BufSize - 1
    /\ \A i \in 2..Len(stack) :
          stack[i].prefix =
             Take(IF stack[i - 1].prefix = <<>> THEN EntryKey(stack[i - 1])
                  ELSE stack[i - 1].prefix \o <<",">> \o EntryKey(stack[i - 1]),
                  BufSize - 1)
    /\ (resultListObj # NULL /\ ParsedObject) =>
          \A i \in 1..NumPairs(resultListObj[1]) :
             /\ Len(PathAt(resultListObj[1], i)) <= BufSize - 1
             /\ i <= Len(Leaves(Parsed[1])) =>
                   PathAt(resultListObj[1], i) =
                      Take(UncutPath(Leaves(Parsed[1])[i].keys), BufSize - 1)

\* A call whose prefix was cut to 1023 characters has appended a pair with
\* that cut path.
C10_Witness ==
    /\ pc = "flatten"
    /\ Len(stack) >= 4
    /\ Len(Top.prefix) = BufSize - 1
    /\ Len(stack[Len(stack) - 1].prefix) + 1 + Len(EntryKey(stack[Len(stack) - 1]))
          > BufSize - 1
    /\ Len(resultListObj[1]) >= 2
    /\ PathAt(resultListObj[1], 1) = Top.prefix

====
